---- MODULE Spec2Model ----
(***************************************************************************)
(* Verification model of runarium (running-route-video-generater).         *)
(*                                                                         *)
(*   Spec       : one run of progressive_route_with_config, the video job  *)
(*                (src/src/generators/route_video.rs), fed by fit_reader   *)
(*                (src/src/utils/read_file.rs).                            *)
(*   ServerSpec : the upload server of src/examples/server.rs, with        *)
(*                concurrent generate and download requests.               *)
(*   RouteSpec  : the front half of the video job on numeric tracks:       *)
(*                get_bounds, to_px, the frame rate and the sink open.     *)
(*   PaceSpec   : the pace functions of src/src/utils/converter.rs and the *)
(*                lap-panel arithmetic of the video job.                   *)
(*   ImageSpec  : one run of image_route_with_config, the image job        *)
(*                (src/src/generators/route_image.rs), fed by fit_reader.  *)
(*                                                                         *)
(* A raster (Mat) is modelled by the sequence of draw calls that produced  *)
(* it: drawing appends one entry, Mat::clone copies the sequence.          *)
(***************************************************************************)
EXTENDS Integers, Sequences, FiniteSets, TLC

(* ------------------------------ bounds -------------------------------- *)
\* Record messages of the FIT file that contribute a value.
MaxRecords == 3
\* Lap messages of the FIT file that carry all three lap fields.
MaxLaps == 2
\* Upload requests (generate_video / generate_image) the server receives;
\* they are numbered in their order of arrival.
NumRequests == 2
\* Download requests the server receives.
MaxDownloads == 3

(* --------------------------- job variables ---------------------------- *)
VARIABLES
  pc,               \* position of the job in progressive_route_with_config
  config,           \* RouteVideoConfig: the visibility flags the job reads
  gps_points,       \* RouteData.gps_points, each named by its source record
  paces,            \* RouteData.paces, each named by its source record
  distances,        \* RouteData.distances, each named by its source record
  nrec,             \* contributing Record messages read so far
  avg_heart_rate,   \* LapData.avg_heart_rate, each named by its source lap
  enhanced_avg_speed, \* LapData.enhanced_avg_speed (pace labels), same naming
  avg_step_length,  \* LapData.avg_step_length, same naming
  pixel_points,     \* Vec<core::Point>, one per GPS sample
  projected,        \* the projection (points.iter().map(to_px)) has executed
  path_frame,       \* the persistent buffer
  current_frame,    \* the per-index clone
  lap_i,            \* index of the lap row loop
  i,                \* index of the frame loop
  video,            \* calls made on the VideoWriter: open, write(i), release
  written,          \* frames received by the sink, in order
  result,           \* "running" | "Ok" | "Err" | "Panic"
  failed            \* the stage whose failure ended the job, or "none"

(* -------------------------- server variables -------------------------- *)
VARIABLES
  next_id,          \* number of ids Uuid::new_v4() has handed out
  req,              \* per request: position and locals of its generate handler
  tmp,              \* the temp filesystem: the per-request directories
  store,            \* VideoStore / ImageStore: kind -> id -> bytes
  responses,        \* kind -> id -> bodies of the download responses, in order
  downloads         \* download requests handled so far

jobVars == <<pc, config, gps_points, paces, distances, nrec, avg_heart_rate,
             enhanced_avg_speed, avg_step_length, pixel_points, projected,
             path_frame, current_frame, lap_i, i, video, written, result,
             failed>>
srvVars == <<next_id, req, tmp, store, responses, downloads>>

(* ------------------------ function variables -------------------------- *)
\* The numeric functions of the pipeline are applied to inputs of their own.
VARIABLES
  call,             \* the function applied and its arguments
  ret               \* what it has returned so far

fnVars == <<call, ret>>

(* --------------------------- image variables -------------------------- *)
VARIABLES
  route_image,      \* the raster of image_route_with_config
  image_file        \* the rasters image_creator has written, in order

imgVars == <<route_image, image_file>>
vars == <<jobVars, srvVars, fnVars, imgVars>>


(* ----------------------------- helpers -------------------------------- *)
\* One draw call recorded on a raster: op is the Drawer method, i the loop
\* index it was issued for, a and b its arguments (-1: none).
DrawCall(op, idx, a, b) == [op |-> op, i |-> idx, a |-> a, b |-> b]

\* The freshly resized background (resized.clone()).
Background == <<DrawCall("background", -1, -1, -1)>>

\* First n elements of a sequence.
Take(s, n) == [k \in 1..n |-> s[k]]

\* Field names of a FIT Record and a FIT Lap message that fit_reader matches.
RecordFields == {"enhanced_speed", "position_lat", "position_long", "distance"}
LapFields == {"avg_heart_rate", "enhanced_avg_speed", "avg_step_length"}

\* The visibility flags of RouteVideoConfig, PaceDistConfig, LapDataConfig.
Configs ==
  [show_bottom_bar : BOOLEAN, show_route : BOOLEAN, show_lap_data : BOOLEAN,
   show_pace : BOOLEAN, show_distance : BOOLEAN,
   show_heart_rate : BOOLEAN, show_stride_length : BOOLEAN,
   show_pace_bars : BOOLEAN]

(* --------------------------- server helpers --------------------------- *)
Requests == 1..NumRequests
Kinds == {"video", "image"}
Ids == 1..NumRequests

\* File contents.  The FIT file and the background uploaded by request r
\* are both named r; 0 is "no such file".  An artifact is named by the
\* inputs it was rendered from.
Render(fit, bg) == [fit |-> fit, bg |-> bg]
NoData == Render(0, 0)
NoDir == [exists |-> FALSE, fit |-> 0, bg |-> 0, out |-> NoData]
EmptyDir == [exists |-> TRUE, fit |-> 0, bg |-> 0, out |-> NoData]

\* Uuid::new_v4(): a version-4 UUID, taken to be distinct from every id
\* handed out before.
new_v4 == next_id + 1

\* Variant of temp_dir with a defect: one directory per kind, shared by all
\* requests.
temp_dir_shared(kind, id) == <<kind, 0>>

\* env::temp_dir().join(format!("runarium_{}", video_id)) and
\* env::temp_dir().join(format!("runarium_img_{}", image_id)).
temp_dir(kind, id) == <<kind, id>>

Dirs == Kinds \X (0..NumRequests)

NoRequest ==
  [pc |-> "idle", kind |-> "none", id |-> 0, job |-> "none",
   data |-> NoData, exit |-> "none"]

srvInitial ==
  /\ next_id = 0
  /\ req = [r \in Requests |-> NoRequest]
  /\ tmp = [d \in Dirs |-> NoDir]
  /\ store = [k \in Kinds |-> [id \in Ids |-> NoData]]
  /\ responses = [k \in Kinds |-> [id \in Ids |-> <<>>]]
  /\ downloads = 0

(* ------------------------------- Init --------------------------------- *)
JobInit ==
  /\ pc = "fit_reader"
  /\ config \in Configs
  /\ gps_points = <<>> /\ paces = <<>> /\ distances = <<>> /\ nrec = 0
  /\ avg_heart_rate = <<>> /\ enhanced_avg_speed = <<>>
  /\ avg_step_length = <<>>
  /\ pixel_points = <<>> /\ projected = FALSE
  /\ path_frame = <<>> /\ current_frame = <<>>
  /\ lap_i = 0 /\ i = 0
  /\ video = <<>> /\ written = <<>>
  /\ result = "running" /\ failed = "none"

\* The function variables while no function of the sections below is applied.
fnInitial ==
  /\ call = [f |-> "none"]
  /\ ret = [state |-> "none"]

\* The image variables while no image job runs.
imgInitial ==
  /\ route_image = <<>>
  /\ image_file = <<>>

Init == JobInit /\ srvInitial /\ fnInitial /\ imgInitial

(* ------------------------- job termination ---------------------------- *)
\* Variant of ReturnErr with a defect: the error is noted and the job goes on.
ErrIgnored(stage) ==
  /\ result' = result
  /\ failed' = stage
  /\ pc' = pc

\* `?` on an Err: the function returns the error to its caller.
ReturnErr(stage) ==
  /\ result' = "Err"
  /\ failed' = stage
  /\ pc' = "done"

\* unwrap()/expect() on a None or an Err: the thread panics.
Panic(stage) ==
  /\ result' = "Panic"
  /\ failed' = stage
  /\ pc' = "done"

\* Ok(()) at the end of the function.
ReturnOk ==
  /\ result' = "Ok"
  /\ failed' = "none"
  /\ pc' = "done"

Running(stage) ==
  /\ result' = result
  /\ failed' = failed
  /\ pc' = stage

(* ---------------------------- fit_reader ------------------------------ *)
\* File::open(file_path)? or fitparser::from_reader(&mut fp)? fails, before
\* any message is handled.
fit_reader_fail ==
  /\ pc = "fit_reader" /\ nrec = 0 /\ enhanced_avg_speed = <<>>
  /\ ReturnErr("fit_reader")
  /\ UNCHANGED <<config, gps_points, paces, distances, nrec, avg_heart_rate,
                 enhanced_avg_speed, avg_step_length, pixel_points, projected,
                 path_frame, current_frame, lap_i, i, video, written>>
  /\ UNCHANGED <<srvVars, fnVars, imgVars>>

\* MesgNum::Record arm for a message holding the fields `fields`.  A
\* distance field is pushed at once; the point and the pace are pushed only
\* when latitude, longitude and speed are all present.
fit_reader_Record(fields) ==
  LET hasDist == "distance" \in fields
      hasPoint == {"position_lat", "position_long", "enhanced_speed"}
                    \subseteq fields
      id == nrec + 1
  IN
  /\ pc = "fit_reader"
  /\ (hasDist \/ hasPoint) => nrec < MaxRecords
  /\ nrec' = IF hasDist \/ hasPoint THEN id ELSE nrec
  /\ distances' = IF hasDist THEN Append(distances, id) ELSE distances
  /\ gps_points' = IF hasPoint THEN Append(gps_points, id) ELSE gps_points
  /\ paces' = IF hasPoint THEN Append(paces, id) ELSE paces
  /\ UNCHANGED <<pc, config, avg_heart_rate, enhanced_avg_speed,
                 avg_step_length, pixel_points, projected, path_frame,
                 current_frame, lap_i, i, video, written, result, failed>>
  /\ UNCHANGED <<srvVars, fnVars, imgVars>>

\* Variant of fit_reader_Lap with a defect: the heart rate is pushed as soon
\* as its field is present.
fit_reader_Lap_unaligned(fields) ==
  LET full == LapFields \subseteq fields
      id == Len(enhanced_avg_speed) + 1
  IN
  /\ pc = "fit_reader"
  /\ Len(avg_heart_rate) < MaxLaps
  /\ full => Len(enhanced_avg_speed) < MaxLaps
  /\ avg_heart_rate' =
       IF "avg_heart_rate" \in fields
       THEN Append(avg_heart_rate, id) ELSE avg_heart_rate
  /\ enhanced_avg_speed' =
       IF full THEN Append(enhanced_avg_speed, id) ELSE enhanced_avg_speed
  /\ avg_step_length' =
       IF full THEN Append(avg_step_length, id) ELSE avg_step_length
  /\ UNCHANGED <<pc, config, gps_points, paces, distances, nrec,
                 pixel_points, projected, path_frame, current_frame, lap_i, i,
                 video, written, result, failed>>
  /\ UNCHANGED <<srvVars, fnVars, imgVars>>

\* MesgNum::Lap arm: the three vectors are pushed together, and only when
\* all three fields are present.
fit_reader_Lap(fields) ==
  LET full == LapFields \subseteq fields
      id == Len(enhanced_avg_speed) + 1
  IN
  /\ pc = "fit_reader"
  /\ full => Len(enhanced_avg_speed) < MaxLaps
  /\ avg_heart_rate' =
       IF full THEN Append(avg_heart_rate, id) ELSE avg_heart_rate
  /\ enhanced_avg_speed' =
       IF full THEN Append(enhanced_avg_speed, id) ELSE enhanced_avg_speed
  /\ avg_step_length' =
       IF full THEN Append(avg_step_length, id) ELSE avg_step_length
  /\ UNCHANGED <<pc, config, gps_points, paces, distances, nrec,
                 pixel_points, projected, path_frame, current_frame, lap_i, i,
                 video, written, result, failed>>
  /\ UNCHANGED <<srvVars, fnVars, imgVars>>

\* End of the message list: fit_reader returns Ok((RouteData, LapData)).
fit_reader_Ok ==
  /\ pc = "fit_reader"
  /\ Running("get_bounds")
  /\ UNCHANGED <<config, gps_points, paces, distances, nrec, avg_heart_rate,
                 enhanced_avg_speed, avg_step_length, pixel_points, projected,
                 path_frame, current_frame, lap_i, i, video, written>>
  /\ UNCHANGED <<srvVars, fnVars, imgVars>>

(* ------------------- progressive_route_with_config -------------------- *)
\* get_bounds(&points): two folds from (INFINITY, NEG_INFINITY); it has no
\* error return and no emptiness check, so the job goes on whatever the
\* number of points.
get_bounds ==
  /\ pc = "get_bounds"
  /\ Running("load_image")
  /\ UNCHANGED <<config, gps_points, paces, distances, nrec, avg_heart_rate,
                 enhanced_avg_speed, avg_step_length, pixel_points, projected,
                 path_frame, current_frame, lap_i, i, video, written>>
  /\ UNCHANGED <<srvVars, fnVars, imgVars>>

\* load_and_resize_image(&config.file_config.background_image, 1080)?
load_and_resize_image ==
  /\ pc = "load_image"
  /\ \E ok \in BOOLEAN :
       IF ok THEN Running("project") ELSE ReturnErr("load_image")
  /\ UNCHANGED <<config, gps_points, paces, distances, nrec, avg_heart_rate,
                 enhanced_avg_speed, avg_step_length, pixel_points, projected,
                 path_frame, current_frame, lap_i, i, video, written>>
  /\ UNCHANGED <<srvVars, fnVars, imgVars>>

\* points.iter().map(|&(la, lo)| to_px(la, lo)).collect(): one pixel point
\* per GPS sample, in order; a pixel point is named by the sample it is the
\* projection of.
project ==
  /\ pc = "project"
  /\ pixel_points' = [k \in 1..Len(gps_points) |-> gps_points[k]]
  /\ projected' = TRUE
  /\ Running("video_creator")
  /\ UNCHANGED <<config, gps_points, paces, distances, nrec, avg_heart_rate,
                 enhanced_avg_speed, avg_step_length, path_frame,
                 current_frame, lap_i, i, video, written>>
  /\ UNCHANGED <<srvVars, fnVars, imgVars>>

\* fps = (pixel_points.len() / 15) as f64;
\* video_creator(width, height, fps, &config.file_config.output_file)?
video_creator ==
  /\ pc = "video_creator"
  /\ \E ok \in BOOLEAN :
       IF ok
       THEN /\ video' = Append(video, "open")
            /\ Running("init_frame")
       ELSE /\ video' = video
            /\ ReturnErr("video_creator")
  /\ UNCHANGED <<config, gps_points, paces, distances, nrec, avg_heart_rate,
                 enhanced_avg_speed, avg_step_length, pixel_points, projected,
                 path_frame, current_frame, lap_i, i, written>>
  /\ UNCHANGED <<srvVars, fnVars, imgVars>>

\* imgproc::resize(&bg_image, &mut resized, ...)?;
\* let mut path_frame = resized.clone();
init_frame ==
  /\ pc = "init_frame"
  /\ \E ok \in BOOLEAN :
       IF ok
       THEN /\ path_frame' = Background
            /\ Running("min_pace")
       ELSE /\ path_frame' = path_frame
            /\ ReturnErr("resize")
  /\ UNCHANGED <<config, gps_points, paces, distances, nrec, avg_heart_rate,
                 enhanced_avg_speed, avg_step_length, pixel_points, projected,
                 current_frame, lap_i, i, video, written>>
  /\ UNCHANGED <<srvVars, fnVars, imgVars>>

\* pace_seconds = enhanced_avg_speed.iter().map(convert_pace_to_sec);
\* min_val = *pace_seconds.iter().min_by(..).expect("Failed to find min pace")
\* This runs whatever show_lap_data is; min_by over no lap is None.
min_pace ==
  /\ pc = "min_pace"
  /\ IF enhanced_avg_speed = <<>>
     THEN Panic("min_pace")
     ELSE Running("header")
  /\ UNCHANGED <<config, gps_points, paces, distances, nrec, avg_heart_rate,
                 enhanced_avg_speed, avg_step_length, pixel_points, projected,
                 path_frame, current_frame, lap_i, i, video, written>>
  /\ UNCHANGED <<srvVars, fnVars, imgVars>>

\* if config.show_lap_data { drawer.header(&mut path_frame, ..).expect(..) }
header ==
  /\ pc = "header"
  /\ IF config.show_lap_data
     THEN \E ok \in BOOLEAN :
            IF ok
            THEN /\ path_frame' =
                      Append(path_frame, DrawCall("header", -1, -1, -1))
                 /\ Running("lap_row")
            ELSE /\ path_frame' = path_frame
                 /\ Panic("header")
     ELSE /\ path_frame' = path_frame
          /\ Running("frame")
  /\ lap_i' = 0
  /\ UNCHANGED <<config, gps_points, paces, distances, nrec, avg_heart_rate,
                 enhanced_avg_speed, avg_step_length, pixel_points, projected,
                 current_frame, i, video, written>>
  /\ UNCHANGED <<srvVars, fnVars, imgVars>>

\* The draw calls of lap row n (0-based) in source order: pace text, then
\* heart rate, stride length and pace bar when their flags are set.  The
\* heart rate reads avg_heart_rate[n], the stride avg_step_length[n], the
\* bar pace_seconds[n] (the n-th element of enhanced_avg_speed).
LapRowCalls(n) ==
  <<DrawCall("pace", n, enhanced_avg_speed[n + 1], -1)>>
  \o (IF config.show_heart_rate
      THEN <<DrawCall("heart_rate", n, avg_heart_rate[n + 1], -1)>>
      ELSE <<>>)
  \o (IF config.show_stride_length
      THEN <<DrawCall("stride_length", n, avg_step_length[n + 1], -1)>>
      ELSE <<>>)
  \o (IF config.show_pace_bars
      THEN <<DrawCall("bar", n, enhanced_avg_speed[n + 1], -1)>>
      ELSE <<>>)

\* One iteration of `for (i, pace) in enhanced_avg_speed.iter().enumerate()`.
\* drawer.text_size(..)? returns its error; every draw call is .expect()ed.
\* fail = 0: no call fails; fail = -1: text_size fails; fail = k > 0: the
\* k-th draw call of the row fails, after the k-1 before it were drawn.
lap_row ==
  LET calls == LapRowCalls(lap_i) IN
  /\ pc = "lap_row"
  /\ lap_i < Len(enhanced_avg_speed)
  /\ \E fail \in -1..Len(calls) :
       IF fail = 0
       THEN /\ path_frame' = path_frame \o calls
            /\ lap_i' = lap_i + 1
            /\ Running(IF lap_i + 1 < Len(enhanced_avg_speed)
                       THEN "lap_row" ELSE "frame")
       ELSE IF fail = -1
       THEN /\ path_frame' = path_frame
            /\ lap_i' = lap_i
            /\ ReturnErr("text_size")
       ELSE /\ path_frame' = path_frame \o Take(calls, fail - 1)
            /\ lap_i' = lap_i
            /\ Panic(calls[fail].op)
  /\ UNCHANGED <<config, gps_points, paces, distances, nrec, avg_heart_rate,
                 enhanced_avg_speed, avg_step_length, pixel_points, projected,
                 current_frame, i, video, written>>
  /\ UNCHANGED <<srvVars, fnVars, imgVars>>

\* The stroke of iteration idx (0-based), drawn by drawer.line on the
\* persistent buffer: if config.show_route { if i > 0 { line(&mut path_frame,
\* pixel_points[i - 1], *point, ..)? } }
LineDrawn(idx) == config.show_route /\ idx > 0

\* Variants of PathFrameAfterLine with a defect, used to test the properties:
\* the whole history is redrawn in every iteration;
PathFrameRedrawsHistory(idx) ==
  IF LineDrawn(idx)
  THEN path_frame \o
       [j \in 1..idx |->
          DrawCall("line", j, pixel_points[j], pixel_points[j + 1])]
  ELSE path_frame

\* the panel header is drawn again inside the frame loop;
PathFrameRedrawsPanel(idx) ==
  Append(IF LineDrawn(idx)
         THEN Append(path_frame,
                     DrawCall("line", idx, pixel_points[idx],
                              pixel_points[idx + 1]))
         ELSE path_frame,
         DrawCall("header", -1, -1, -1))

\* the marker is drawn on the persistent buffer instead of the clone.
PathFrameKeepsMarker(idx) ==
  Append(IF LineDrawn(idx)
         THEN Append(path_frame,
                     DrawCall("line", idx, pixel_points[idx],
                              pixel_points[idx + 1]))
         ELSE path_frame,
         DrawCall("point", idx, pixel_points[idx + 1], -1))

PathFrameAfterLine(idx) ==
  IF LineDrawn(idx)
  THEN Append(path_frame,
              DrawCall("line", idx, pixel_points[idx], pixel_points[idx + 1]))
  ELSE path_frame

\* The draw calls made on the clone in iteration idx: the marker
\* (drawer.point) when show_route is set, then the bottom overlay
\* (drawer.text_bar) when show_bottom_bar is set, paces[i] and distances[i]
\* exist and at least one of show_pace, show_distance is set.  A switched-off
\* text is the empty string (-1).
PointDrawn(idx) == config.show_route

\* Variant of TextBarDrawn with a defect: the overlay is drawn whatever
\* show_pace and show_distance are.
TextBarDrawnAlways(idx) ==
  /\ config.show_bottom_bar /\ idx < Len(paces) /\ idx < Len(distances)

TextBarDrawn(idx) ==
  /\ config.show_bottom_bar /\ idx < Len(paces) /\ idx < Len(distances)
  /\ (config.show_pace \/ config.show_distance)

CurrentFrameCalls(idx) ==
  (IF PointDrawn(idx)
   THEN <<DrawCall("point", idx, pixel_points[idx + 1], -1)>>
   ELSE <<>>)
  \o (IF TextBarDrawn(idx)
      THEN <<DrawCall("text_bar", idx,
                      IF config.show_pace THEN paces[idx + 1] ELSE -1,
                      IF config.show_distance THEN distances[idx + 1] ELSE -1)>>
      ELSE <<>>)

\* The fallible calls of one iteration, in source order.
FrameCalls(idx) ==
  (IF LineDrawn(idx) THEN <<"line">> ELSE <<>>)
  \o (IF PointDrawn(idx) THEN <<"point">> ELSE <<>>)
  \o (IF TextBarDrawn(idx) THEN <<"text_bar">> ELSE <<>>)
  \o <<"write">>

\* One iteration of `for (i, point) in pixel_points.iter().enumerate()`:
\* stroke on path_frame, clone, marker and overlay on the clone,
\* video.write(&current_frame)?.  Every call is followed by `?`; fail names
\* the call that returns Err ("none": the iteration completes).
frame ==
  /\ pc = "frame"
  /\ i < Len(pixel_points)
  /\ \E fail \in {"none", "line", "point", "text_bar", "write"} :
       /\ fail # "none" =>
            \E k \in 1..Len(FrameCalls(i)) : FrameCalls(i)[k] = fail
       /\ IF fail = "line"
          THEN /\ path_frame' = path_frame
               /\ current_frame' = current_frame
          ELSE /\ path_frame' = PathFrameAfterLine(i)
               /\ current_frame' =
                    PathFrameAfterLine(i) \o
                    (IF fail = "point" THEN <<>>
                     ELSE IF fail = "text_bar"
                     THEN Take(CurrentFrameCalls(i),
                               Len(CurrentFrameCalls(i)) - 1)
                     ELSE CurrentFrameCalls(i))
       /\ IF fail = "none"
          THEN /\ video' = Append(video, "write")
               /\ written' =
                    Append(written, [i |-> i, frame |-> current_frame'])
               /\ i' = i + 1
               /\ Running("frame")
          ELSE /\ video' = video
               /\ written' = written
               /\ i' = i
               /\ ReturnErr(fail)
  /\ UNCHANGED <<config, gps_points, paces, distances, nrec, avg_heart_rate,
                 enhanced_avg_speed, avg_step_length, pixel_points, projected,
                 lap_i>>
  /\ UNCHANGED <<srvVars, fnVars, imgVars>>

\* Variant of release with a defect: the sink is released without waiting
\* for the last index.
release_early ==
  /\ pc = "frame"
  /\ \E ok \in BOOLEAN :
       IF ok
       THEN /\ video' = Append(video, "release")
            /\ ReturnOk
       ELSE /\ video' = video
            /\ ReturnErr("release")
  /\ UNCHANGED <<config, gps_points, paces, distances, nrec, avg_heart_rate,
                 enhanced_avg_speed, avg_step_length, pixel_points, projected,
                 path_frame, current_frame, lap_i, i, written>>
  /\ UNCHANGED <<srvVars, fnVars, imgVars>>

\* After the loop: video.release()?; Ok(())
release ==
  /\ pc = "frame"
  /\ i >= Len(pixel_points)
  /\ \E ok \in BOOLEAN :
       IF ok
       THEN /\ video' = Append(video, "release")
            /\ ReturnOk
       ELSE /\ video' = video
            /\ ReturnErr("release")
  /\ UNCHANGED <<config, gps_points, paces, distances, nrec, avg_heart_rate,
                 enhanced_avg_speed, avg_step_length, pixel_points, projected,
                 path_frame, current_frame, lap_i, i, written>>
  /\ UNCHANGED <<srvVars, fnVars, imgVars>>

(* --------------------------- specification ---------------------------- *)
Next ==
  \/ fit_reader_fail
  \/ \E fields \in SUBSET RecordFields : fit_reader_Record(fields)
  \/ \E fields \in SUBSET LapFields : fit_reader_Lap(fields)
  \/ fit_reader_Ok
  \/ get_bounds
  \/ load_and_resize_image
  \/ project
  \/ video_creator
  \/ init_frame
  \/ min_pace
  \/ header
  \/ lap_row
  \/ frame
  \/ release

Spec == Init /\ [][Next]_vars

(* --------------------------- upload server ---------------------------- *)
\* The job variables while no job of the model above runs.
jobInitial ==
  /\ pc = "idle"
  /\ config = [show_bottom_bar |-> TRUE, show_route |-> TRUE,
               show_lap_data |-> TRUE, show_pace |-> TRUE,
               show_distance |-> TRUE, show_heart_rate |-> TRUE,
               show_stride_length |-> TRUE, show_pace_bars |-> TRUE]
  /\ gps_points = <<>> /\ paces = <<>> /\ distances = <<>> /\ nrec = 0
  /\ avg_heart_rate = <<>> /\ enhanced_avg_speed = <<>>
  /\ avg_step_length = <<>>
  /\ pixel_points = <<>> /\ projected = FALSE
  /\ path_frame = <<>> /\ current_frame = <<>>
  /\ lap_i = 0 /\ i = 0
  /\ video = <<>> /\ written = <<>>
  /\ result = "running" /\ failed = "none"

ServerInit == jobInitial /\ srvInitial /\ fnInitial /\ imgInitial

\* The handler returns (or its task panics) at exit path `exit`.
Exit(r, exit) == [req[r] EXCEPT !.pc = "done", !.exit = exit]

\* generate_video / generate_image up to the validation of the upload: a
\* fresh id, create_dir_all(&temp_dir), the multipart loop (next_field()
\* and bytes() are unwrap()ed), then fit_data.ok_or(..)? and
\* background_data.ok_or(..)?.  `fields` are the field names of the upload.
generate_accept(r, kind, fields, outcome) ==
  LET id == new_v4
      dir == temp_dir(kind, id)
      started == [req[r] EXCEPT !.kind = kind, !.id = id]
  IN
  /\ req[r].pc = "idle"
  /\ r = next_id + 1
  /\ next_id' = id
  /\ IF outcome = "create_dir"
     THEN /\ tmp' = tmp
          /\ req' = [req EXCEPT ![r] =
                       [started EXCEPT !.pc = "done", !.exit = "create_dir"]]
     ELSE /\ tmp' = [tmp EXCEPT ![dir] =
                       IF tmp[dir].exists THEN tmp[dir] ELSE EmptyDir]
          /\ req' = [req EXCEPT ![r] =
               IF outcome = "multipart"
               THEN [started EXCEPT !.pc = "done", !.exit = "multipart_panic"]
               ELSE IF "fit_file" \notin fields
               THEN [started EXCEPT !.pc = "done", !.exit = "missing_fit_file"]
               ELSE IF "background" \notin fields
               THEN [started EXCEPT !.pc = "done",
                                    !.exit = "missing_background"]
               ELSE [started EXCEPT !.pc = "write"]]
  /\ UNCHANGED <<store, responses, downloads>>
  /\ UNCHANGED <<jobVars, fnVars, imgVars>>

\* write_bytes(fit_path, &fit_bytes).await.map_err(..)?;
\* write_bytes(bg_path, &background_bytes).await.map_err(..)?
\* fail names the write that fails ("none": both succeed).
generate_write(r, fail) ==
  LET dir == temp_dir(req[r].kind, req[r].id) IN
  /\ req[r].pc = "write"
  /\ IF fail = "fit"
     THEN /\ tmp' = tmp
          /\ req' = [req EXCEPT ![r] = Exit(r, "write_fit")]
     ELSE IF fail = "background"
     THEN /\ tmp' = [tmp EXCEPT ![dir].fit = r]
          /\ req' = [req EXCEPT ![r] = Exit(r, "write_background")]
     ELSE /\ tmp' = [tmp EXCEPT ![dir].fit = r, ![dir].bg = r]
          /\ req' = [req EXCEPT ![r].pc = "job"]
  /\ UNCHANGED <<next_id, store, responses, downloads>>
  /\ UNCHANGED <<jobVars, fnVars, imgVars>>

\* The blocking task: progressive_route_with_config(config) (or
\* image_route_with_config) on the paths of the FileConfig.  It reads
\* data.fit and background.jpg of the request's directory and, when it
\* returns Ok, has written the output file there.  outcome is what the job
\* does: "Ok", "Err" or "Panic".
generate_job(r, outcome) ==
  LET dir == temp_dir(req[r].kind, req[r].id) IN
  /\ req[r].pc = "job"
  /\ tmp' = IF outcome = "Ok"
            THEN [tmp EXCEPT ![dir].out = Render(tmp[dir].fit, tmp[dir].bg)]
            ELSE tmp
  /\ req' = [req EXCEPT ![r].pc = "joined", ![r].job = outcome]
  /\ UNCHANGED <<next_id, store, responses, downloads>>
  /\ UNCHANGED <<jobVars, fnVars, imgVars>>

\* After .await on the task: a JoinError (the job panicked) and a job Err
\* both remove the directory and answer 500; on Ok the output is read with
\* fs::read(&output_path), whose failure also removes the directory.
generate_joined(r, read_ok) ==
  LET dir == temp_dir(req[r].kind, req[r].id) IN
  /\ req[r].pc = "joined"
  /\ IF req[r].job = "Panic"
     THEN /\ tmp' = [tmp EXCEPT ![dir] = NoDir]
          /\ req' = [req EXCEPT ![r] = Exit(r, "join_error")]
     ELSE IF req[r].job = "Err"
     THEN /\ tmp' = [tmp EXCEPT ![dir] = NoDir]
          /\ req' = [req EXCEPT ![r] = Exit(r, "job_failed")]
     ELSE IF ~read_ok \/ tmp[dir].out = NoData
     THEN /\ tmp' = [tmp EXCEPT ![dir] = NoDir]
          /\ req' = [req EXCEPT ![r] = Exit(r, "read_output")]
     ELSE /\ tmp' = tmp
          /\ req' = [req EXCEPT ![r].pc = "store", ![r].data = tmp[dir].out]
  /\ UNCHANGED <<next_id, store, responses, downloads>>
  /\ UNCHANGED <<jobVars, fnVars, imgVars>>

\* Variant of generate_store with a defect: the handler goes on to answer
\* without inserting the artifact.
generate_store_skips(r) ==
  /\ req[r].pc = "store"
  /\ store' = store
  /\ req' = [req EXCEPT ![r].pc = "respond"]
  /\ UNCHANGED <<next_id, tmp, responses, downloads>>
  /\ UNCHANGED <<jobVars, fnVars, imgVars>>

\* { let mut videos = store.lock().await; videos.insert(id, data); }
generate_store(r) ==
  /\ req[r].pc = "store"
  /\ store' = [store EXCEPT ![req[r].kind][req[r].id] = req[r].data]
  /\ req' = [req EXCEPT ![r].pc = "respond"]
  /\ UNCHANGED <<next_id, tmp, responses, downloads>>
  /\ UNCHANGED <<jobVars, fnVars, imgVars>>

\* let _ = fs::remove_dir_all(&temp_dir); Ok(Json(VideoResponse { .. }))
generate_respond(r) ==
  LET dir == temp_dir(req[r].kind, req[r].id) IN
  /\ req[r].pc = "respond"
  /\ tmp' = [tmp EXCEPT ![dir] = NoDir]
  /\ req' = [req EXCEPT ![r] = Exit(r, "ok")]
  /\ UNCHANGED <<next_id, store, responses, downloads>>
  /\ UNCHANGED <<jobVars, fnVars, imgVars>>

\* Variant of remove with a defect: the entry is read and left in the map
\* (HashMap::get in place of HashMap::remove).
remove_keeps(map, id) == map

\* HashMap::remove under the store's mutex: the entry, if any, leaves the map.
remove(map, id) == [map EXCEPT ![id] = NoData]

\* download_video / download_image for the path parameter id:
\* { let mut videos = store.lock().await; videos.remove(&video_id) },
\* then Some(data) is answered with the data and None with 404 (a response
\* without data, NoData).
\* A version-4 UUID cannot be guessed: the id of a download is one that a
\* generate response has returned to a client (a path naming no id is
\* answered 404 and changes nothing).
download(kind, id) ==
  /\ downloads < MaxDownloads
  /\ \E r \in Requests : req[r].id = id /\ req[r].exit = "ok"
  /\ downloads' = downloads + 1
  /\ store' = [store EXCEPT ![kind] = remove(store[kind], id)]
  /\ responses' = [responses EXCEPT ![kind][id] = Append(@, store[kind][id])]
  /\ UNCHANGED <<next_id, req, tmp>>
  /\ UNCHANGED <<jobVars, fnVars, imgVars>>

ServerNext ==
  \/ \E r \in Requests, kind \in Kinds,
        fields \in SUBSET {"fit_file", "background", "config"},
        outcome \in {"create_dir", "multipart", "read"} :
       generate_accept(r, kind, fields, outcome)
  \/ \E r \in Requests, fail \in {"none", "fit", "background"} :
       generate_write(r, fail)
  \/ \E r \in Requests, outcome \in {"Ok", "Err", "Panic"} :
       generate_job(r, outcome)
  \/ \E r \in Requests, read_ok \in BOOLEAN : generate_joined(r, read_ok)
  \/ \E r \in Requests : generate_store(r)
  \/ \E r \in Requests : generate_respond(r)
  \/ \E kind \in Kinds, id \in Ids : download(kind, id)

ServerSpec == ServerInit /\ [][ServerNext]_vars

(* ====================== properties of the video job =================== *)
\* The calls of a raster whose op is in ops, in drawing order.
CallsOf(raster, ops) == SelectSeq(raster, LAMBDA c : c.op \in ops)

\* The K-1 strokes (p[j-1], p[j]), j = 1..K-1, in drawing order.
StrokesUpTo(K) ==
  [j \in 1..(K - 1) |->
     DrawCall("line", j, pixel_points[j], pixel_points[j + 1])]

\* C1 as stated: a job that returns Ok has written exactly N frames for N
\* pixel points, and the K-th frame written holds exactly the K-1 strokes
\* (p[j-1], p[j]), j = 1..K-1, each once.
C1_FramesAccumulateStrokes ==
  /\ result = "Ok" => Len(written) = Len(pixel_points)
  /\ \A K \in 1..Len(written) :
       CallsOf(written[K].frame, {"line"}) = StrokesUpTo(K)

\* C1 amended: the strokes are there when show_route is set; with show_route
\* off no frame holds a stroke.  The frame count is N in both cases.
C1_FramesAccumulateStrokesIfShown ==
  /\ result = "Ok" => Len(written) = Len(pixel_points)
  /\ \A K \in 1..Len(written) :
       CallsOf(written[K].frame, {"line"}) =
         IF config.show_route THEN StrokesUpTo(K) ELSE <<>>
  /\ \A a, b \in 1..Len(path_frame) :
       (a # b /\ path_frame[a].op = "line") => path_frame[a] # path_frame[b]

C1_Witness ==
  /\ result = "Ok" /\ config.show_route
  /\ Len(written) = 3
  /\ Len(CallsOf(written[3].frame, {"line"})) = 2

\* C2: a job whose telemetry holds no GPS sample is rejected before the
\* projection: past fit_reader with no sample, nothing is projected, the
\* sink is never opened, no frame is written and the job does not return Ok.
C2_EmptyTelemetryRejected ==
  (pc \notin {"idle", "fit_reader"} /\ gps_points = <<>>) =>
    /\ ~projected
    /\ video = <<>>
    /\ written = <<>>
    /\ result # "Ok"

\* The stages C3 names: telemetry read, image load, sink open, stroke,
\* marker and overlay draw, sink write.
AbortStages ==
  {"fit_reader", "load_image", "video_creator", "line", "point", "text_bar",
   "write"}

\* C3: once one of these stages has returned an error the job has returned
\* that error (not Ok), and from then on the sink receives nothing more.
C3_AbortOnFirstError ==
  [][/\ failed' \in AbortStages => result' = "Err"
     /\ failed \in AbortStages =>
          (written' = written /\ video' = video /\ failed' = failed)]_vars

C3_Witness ==
  /\ failed = "write" /\ result = "Err"
  /\ Len(written) = 2 /\ Len(pixel_points) = 3

\* The calls that make up the statistics panel.
PanelOps == {"header", "pace", "heart_rate", "stride_length", "bar"}

\* The panel as it must appear on a raster: one header, then for every lap
\* row, in order, one pace text and one heart rate, stride and bar exactly
\* when their flag is set; and all of it drawn before any stroke.
PanelOnce(raster) ==
  LET panel == CallsOf(raster, PanelOps)
      Row(n) == SelectSeq(panel, LAMBDA c : c.i = n)
      Ops(n) == {Row(n)[k].op : k \in 1..Len(Row(n))}
  IN
  /\ Len(CallsOf(raster, {"header"})) = 1
  /\ panel # <<>> /\ panel[1].op = "header"
  /\ \A n \in 0..(Len(enhanced_avg_speed) - 1) :
       /\ Len(CallsOf(Row(n), {"pace"})) = 1
       /\ Len(Row(n)) = Cardinality(Ops(n))
       /\ Ops(n) = {"pace"}
            \cup (IF config.show_heart_rate THEN {"heart_rate"} ELSE {})
            \cup (IF config.show_stride_length THEN {"stride_length"} ELSE {})
            \cup (IF config.show_pace_bars THEN {"bar"} ELSE {})
  /\ \A k \in 2..Len(panel) :
       panel[k].i \in 0..(Len(enhanced_avg_speed) - 1)
  /\ \A a, b \in 1..Len(raster) :
       (raster[a].op = "line" /\ raster[b].op \in PanelOps) => b < a

\* C4: with the lap panel enabled, every frame written holds the panel
\* exactly once, drawn before any stroke, and so does the persistent buffer
\* throughout the frame loop.
C4_PanelDrawnOnce ==
  config.show_lap_data =>
    /\ \A K \in 1..Len(written) : PanelOnce(written[K].frame)
    /\ pc = "frame" => PanelOnce(path_frame)

C4_Witness ==
  /\ config.show_lap_data /\ config.show_pace_bars /\ config.show_heart_rate
  /\ Len(enhanced_avg_speed) = 2
  /\ result = "Ok" /\ Len(written) = 2
  /\ PanelOnce(written[2].frame)

\* The marker of the K-th frame: one drawer.point call, at pixel_points[K-1]
\* (0-based), issued for index K-1.
MarkerOf(K) == DrawCall("point", K - 1, pixel_points[K], -1)

\* What the persistent buffer may hold: background, panel, strokes.
OnlyAccumulated(raster) ==
  \A k \in 1..Len(raster) :
    raster[k].op \in {"background", "line"} \cup PanelOps

\* C5 as stated: every frame written holds exactly one marker, the one of its
\* own index, and no overlay of another index; the persistent buffer holds
\* neither markers nor overlays.
C5_MarkerAndOverlayOnCloneOnly ==
  /\ \A K \in 1..Len(written) :
       /\ written[K].i = K - 1
       /\ CallsOf(written[K].frame, {"point"}) = <<MarkerOf(K)>>
       /\ \A k \in 1..Len(written[K].frame) :
            written[K].frame[k].op = "text_bar" =>
              written[K].frame[k].i = K - 1
       /\ Len(CallsOf(written[K].frame, {"text_bar"})) <= 1
  /\ OnlyAccumulated(path_frame)

\* C5 amended: the marker is there exactly when show_route is set.
C5_MarkerIfShownAndOverlayOnCloneOnly ==
  /\ \A K \in 1..Len(written) :
       /\ written[K].i = K - 1
       /\ CallsOf(written[K].frame, {"point"}) =
            IF config.show_route THEN <<MarkerOf(K)>> ELSE <<>>
       /\ \A k \in 1..Len(written[K].frame) :
            written[K].frame[k].op = "text_bar" =>
              written[K].frame[k].i = K - 1
       /\ Len(CallsOf(written[K].frame, {"text_bar"})) <= 1
  /\ OnlyAccumulated(path_frame)

C5_Witness ==
  /\ config.show_route /\ Len(written) = 3
  /\ Len(CallsOf(written[1].frame, {"text_bar"})) = 1
  /\ Len(CallsOf(written[3].frame, {"text_bar"})) = 1
  /\ CallsOf(written[3].frame, {"point"}) = <<MarkerOf(3)>>

\* C6: the sink receives open, then the frames of index 0, 1, ... in this
\* order, then a single release, which comes after the frame of the last
\* index and is the last call; a job that returns Ok has made all of them.
C6_WritesInOrderThenRelease ==
  /\ \A K \in 1..Len(written) : written[K].i = K - 1
  /\ \A k \in 1..Len(video) :
       video[k] = "release" => (k = Len(video) /\ Len(written) = Len(pixel_points))
  /\ \A k \in 1..Len(video) : (video[k] = "open") = (k = 1)
  /\ result = "Ok" =>
       /\ Len(video) = Len(pixel_points) + 2
       /\ video[Len(video)] = "release"
       /\ \A k \in 2..(Len(video) - 1) : video[k] = "write"
       /\ Len(written) = Len(pixel_points)

C6_Witness ==
  /\ result = "Ok" /\ Len(written) = 3
  /\ video = <<"open", "write", "write", "write", "release">>

\* C7: no failure ends the job by a panic.
C7_NoPanic == result # "Panic"

(* ===================== properties of the upload server ================ *)
\* C8: when a generate handler has ended, on whatever exit path, the temp
\* directory it created no longer exists.
C8_TempDirRemovedOnEveryExit ==
  \A r \in Requests :
    (req[r].pc = "done" /\ req[r].exit # "create_dir") =>
      ~tmp[temp_dir(req[r].kind, req[r].id)].exists

\* The artifact of (kind, id) has been inserted into the store.
Inserted(kind, id) ==
  \E r \in Requests :
    /\ req[r].kind = kind /\ req[r].id = id
    /\ req[r].pc = "respond" \/ req[r].exit = "ok"

\* The download responses for (kind, id) that carried data.
WithData(kind, id) ==
  SelectSeq(responses[kind][id], LAMBDA body : body # NoData)

\* C9: for every id at most one download response carries the artifact, the
\* entry is gone from the store from then on, and every later response for
\* the id is not-found; an inserted artifact is either still in the store
\* or was handed out exactly once.
C9_OneShotDownload ==
  \A kind \in Kinds, id \in Ids :
    /\ Len(WithData(kind, id)) <= 1
    /\ Len(WithData(kind, id)) = 1 => store[kind][id] = NoData
    /\ \A a, b \in 1..Len(responses[kind][id]) :
         (a < b /\ responses[kind][id][a] # NoData) =>
           responses[kind][id][b] = NoData
    /\ Inserted(kind, id) =>
         (store[kind][id] # NoData) # (Len(WithData(kind, id)) = 1)
    /\ ~Inserted(kind, id) =>
         (store[kind][id] = NoData /\ WithData(kind, id) = <<>>)

C9_Witness ==
  \E kind \in Kinds, id \in Ids :
    /\ Len(responses[kind][id]) = 2
    /\ responses[kind][id][1] # NoData
    /\ responses[kind][id][2] = NoData

\* C10: requests own their directory and files: the directories of two
\* started requests differ, the input files in a request's directory are
\* the ones it uploaded, and the artifact read, stored or handed out under
\* a request's id is the one rendered from that request's own upload.
C10_JobsShareNoState ==
  /\ \A r1, r2 \in Requests :
       (r1 # r2 /\ req[r1].pc # "idle" /\ req[r2].pc # "idle") =>
         /\ req[r1].id # req[r2].id
         /\ temp_dir(req[r1].kind, req[r1].id)
              # temp_dir(req[r2].kind, req[r2].id)
  /\ \A r \in Requests :
       LET dir == temp_dir(req[r].kind, req[r].id) IN
       /\ req[r].pc \in {"job", "joined", "store", "respond"} =>
            /\ tmp[dir].fit = r /\ tmp[dir].bg = r
            /\ tmp[dir].out \in {NoData, Render(r, r)}
       /\ req[r].pc \in {"store", "respond"} => req[r].data = Render(r, r)
       /\ req[r].pc # "idle" =>
            /\ store[req[r].kind][req[r].id] \in {NoData, Render(r, r)}
            /\ \A k \in 1..Len(responses[req[r].kind][req[r].id]) :
                 responses[req[r].kind][req[r].id][k]
                   \in {NoData, Render(r, r)}

C10_Witness ==
  /\ req[1].pc = "respond" /\ req[2].pc = "store"
  /\ req[1].kind = req[2].kind
  /\ store[req[1].kind][req[1].id] = Render(1, 1)
  /\ req[2].data = Render(2, 2)

(* -------------------------- route projection -------------------------- *)
\* The front half of progressive_route_with_config on numeric input: bounds
\* of the track, projection of every sample, frame rate, sink open.
\*
\* A GPS coordinate is held in semicircles, the unit of the FIT file.
\* semicircles_to_degrees multiplies by 180 / 2^31, which is exact in f64 for
\* every i32, so order, equality and the ratios of differences of the degree
\* values are those of the semicircle values.
MaxLoop == 3
MaxPoints == 16
\* The coordinate values samples are drawn from.
Coords == {0, 1, 2}

\* f64::INFINITY and f64::NEG_INFINITY: above and below every value of Coords.
INFINITY == 3
NEG_INFINITY == -INFINITY

\* A sample is (lat, lon).
Samples == Coords \X Coords
Loops == UNION {[1..n -> Samples] : n \in 1..MaxLoop}

\* The track of n samples that runs along the loop, again and again.
Track(loop, n) == [k \in 1..n |-> loop[((k - 1) % Len(loop)) + 1]]
Tracks == {Track(loop, n) : loop \in Loops, n \in 0..MaxPoints}

\* The canvas returned by load_and_resize_image(.., 1080), whose longer side
\* is at most 1080, with a RouteScale in hundredths.
RouteConfigs ==
  {[width |-> 1080, height |-> 607,
    scale |-> 20, offset_x_percent |-> 10, offset_y_percent |-> 10],
   [width |-> 1080, height |-> 607,
    scale |-> 0, offset_x_percent |-> 10, offset_y_percent |-> -5],
   [width |-> 607, height |-> 1080,
    scale |-> 100, offset_x_percent |-> -5, offset_y_percent |-> 0]}

f64_min(a, b) == IF b < a THEN b ELSE a
f64_max(a, b) == IF b > a THEN b ELSE a

\* The fold |(mn, mx), v| (mn.min(v), mx.max(v)) over one axis of the
\* samples from the k-th on, from the accumulator (mn, mx).
RECURSIVE fold_min_max(_, _, _, _, _)
fold_min_max(points, axis, k, mn, mx) ==
  IF k > Len(points)
  THEN <<mn, mx>>
  ELSE fold_min_max(points, axis, k + 1, f64_min(mn, points[k][axis]),
                    f64_max(mx, points[k][axis]))

\* Variant of fold_init with a defect: the folds start from 0.
fold_init_zero == <<0, 0>>

\* The initial accumulator of both folds of get_bounds.
fold_init == <<INFINITY, NEG_INFINITY>>

\* get_bounds: one fold over the latitudes, one over the longitudes.
GetBounds(points) ==
  LET lat == fold_min_max(points, 1, 1, fold_init[1], fold_init[2])
      lon == fold_min_max(points, 2, 1, fold_init[1], fold_init[2])
  IN [lat_min |-> lat[1], lat_max |-> lat[2],
      lon_min |-> lon[1], lon_max |-> lon[2]]

\* `as i32` of the f64 value num / den (den > 0): truncation toward zero.
Trunc(num, den) ==
  IF num >= 0 THEN num \div den ELSE -((-num) \div den)

\* Variant of Normalized with a defect: a degenerate axis is sent to 0.
NormalizedToZero(v, lo, hi) ==
  IF hi # lo
  THEN [num |-> v - lo, den |-> hi - lo]
  ELSE [num |-> 0, den |-> 1]

\* nx and ny of to_px, as a fraction: (v - min) / (max - min) when the axis
\* is not degenerate, else 0.5.
Normalized(v, lo, hi) ==
  IF hi # lo
  THEN [num |-> v - lo, den |-> hi - lo]
  ELSE [num |-> 1, den |-> 2]

\* Variant of to_px with a defect: y is scaled by the canvas height.
to_px_by_height(lat, lon, bounds, cfg) ==
  LET nx == Normalized(lon, bounds.lon_min, bounds.lon_max)
      ny == Normalized(lat, bounds.lat_min, bounds.lat_max)
  IN [x |-> Trunc((cfg.offset_x_percent * nx.den
                     + nx.num * cfg.scale) * cfg.width,
                  100 * nx.den),
      y |-> Trunc((cfg.offset_y_percent * ny.den
                     + (ny.den - ny.num) * cfg.scale) * cfg.height,
                  100 * ny.den)]

\* The closure to_px:
\*   x = ((offset_x_percent + nx * scale) * width as f64) as i32
\*   y = ((offset_y_percent + (1.0 - ny) * scale) * width as f64) as i32
\* The value under the cast is computed exactly.
to_px(lat, lon, bounds, cfg) ==
  LET nx == Normalized(lon, bounds.lon_min, bounds.lon_max)
      ny == Normalized(lat, bounds.lat_min, bounds.lat_max)
  IN [x |-> Trunc((cfg.offset_x_percent * nx.den
                     + nx.num * cfg.scale) * cfg.width,
                  100 * nx.den),
      y |-> Trunc((cfg.offset_y_percent * ny.den
                     + (ny.den - ny.num) * cfg.scale) * cfg.width,
                  100 * ny.den)]

\* Variant of PixelPoints with a defect: a sample equal to the one before it
\* is skipped.
PixelPointsDeduplicated(points, bounds, cfg) ==
  LET kept == {k \in 1..Len(points) : k = 1 \/ points[k] # points[k - 1]}
      nth[j \in 1..Cardinality(kept)] ==
        CHOOSE k \in kept : Cardinality({m \in kept : m < k}) = j - 1
  IN [j \in 1..Cardinality(kept) |->
        to_px(points[nth[j]][1], points[nth[j]][2], bounds, cfg)]

\* points.iter().map(|&(la, lo)| to_px(la, lo)).collect()
PixelPoints(points, bounds, cfg) ==
  [k \in 1..Len(points) |->
     to_px(points[k][1], points[k][2], bounds, cfg)]

\* Variant of Fps with a defect: the quotient is rounded to the nearest.
FpsRounded(len) == (len + 7) \div 15

\* fps = (pixel_points.len() / 15) as f64: usize division.
Fps(len) == len \div 15

RouteCalls == [f : {"route"}, points : Tracks, config : RouteConfigs]

RouteInit ==
  /\ jobInitial /\ srvInitial /\ imgInitial
  /\ call \in RouteCalls
  /\ ret = [state |-> "called"]

\* get_bounds(&points), then the projection of every sample.
route_project ==
  /\ call.f = "route" /\ ret.state = "called"
  /\ LET bounds == GetBounds(call.points) IN
     ret' = [state |-> "projected",
             bounds |-> bounds,
             pixel_points |-> PixelPoints(call.points, bounds, call.config)]
  /\ UNCHANGED <<call, jobVars, srvVars, imgVars>>

\* fps from the number of pixel points, then video_creator(width, height,
\* fps, ..)?: the rate is handed to VideoWriter::new as it is.
route_video_creator ==
  /\ call.f = "route" /\ ret.state = "projected"
  /\ \E ok \in BOOLEAN :
       ret' = [state |-> IF ok THEN "open" ELSE "Err",
               bounds |-> ret.bounds,
               pixel_points |-> ret.pixel_points,
               fps |-> Fps(Len(ret.pixel_points))]
  /\ UNCHANGED <<call, jobVars, srvVars, imgVars>>

RouteNext ==
  \/ route_project
  \/ route_video_creator

RouteSpec == RouteInit /\ [][RouteNext]_vars

(* ----------------------- route projection: claims --------------------- *)
\* The bounds and the pixel points have been computed for the track.
Projected == call.f = "route" /\ ret.state # "called"

\* C11: for a non-empty track the bounds returned by get_bounds enclose
\* every sample on both axes, each of the four bounds is the coordinate of
\* some sample, and for a single sample min = max = that sample.
C11_BoundsEncloseAndAttained ==
  (Projected /\ call.points # <<>>) =>
    LET P == call.points
        b == ret.bounds
    IN
    /\ \A k \in 1..Len(P) :
         /\ b.lat_min <= P[k][1] /\ P[k][1] <= b.lat_max
         /\ b.lon_min <= P[k][2] /\ P[k][2] <= b.lon_max
    /\ \E k \in 1..Len(P) : P[k][1] = b.lat_min
    /\ \E k \in 1..Len(P) : P[k][1] = b.lat_max
    /\ \E k \in 1..Len(P) : P[k][2] = b.lon_min
    /\ \E k \in 1..Len(P) : P[k][2] = b.lon_max
    /\ Len(P) = 1 =>
         /\ b.lat_min = P[1][1] /\ b.lat_max = P[1][1]
         /\ b.lon_min = P[1][2] /\ b.lon_max = P[1][2]

C11_Witness ==
  /\ Projected /\ Len(call.points) = 3
  /\ call.points[1] = <<1, 2>> /\ call.points[2] = <<2, 1>>
  /\ call.points[3] = <<1, 1>>
  /\ ret.bounds = [lat_min |-> 1, lat_max |-> 2, lon_min |-> 1, lon_max |-> 2]

C13_ProjectionKeepsLengthAndOrder ==
  Projected =>
    /\ Len(ret.pixel_points) = Len(call.points)
    /\ \A k \in 1..Len(call.points) :
         k <= Len(ret.pixel_points) /\
         ret.pixel_points[k] =
           to_px(call.points[k][1], call.points[k][2], ret.bounds,
                 call.config)

C13_Witness ==
  /\ Projected /\ Len(call.points) = 4
  /\ call.points[1] = call.points[2] /\ call.points[2] # call.points[3]
  /\ ret.pixel_points[1] = ret.pixel_points[2]
  /\ ret.pixel_points[2] # ret.pixel_points[3]
  /\ ret.pixel_points[4] = ret.pixel_points[1]

C20_FrameRateIsQuotient ==
  (call.f = "route" /\ ret.state \in {"open", "Err"}) =>
    LET N == Len(ret.pixel_points) IN
    /\ 15 * ret.fps <= N /\ N < 15 * ret.fps + 15
    /\ N < 15 => ret.fps = 0

C20_Witness ==
  /\ call.f = "route" /\ ret.state = "open"
  /\ Len(ret.pixel_points) = 14 /\ ret.fps = 0

(* --------------------------- pace and panel --------------------------- *)
\* The pace functions of utils/converter.rs and the lap-panel arithmetic of
\* progressive_route_with_config, on numeric input.
\*
\* A speed is held in mm/s, the unit of the FIT file (the parser scales it
\* by 1/1000 to m/s), so pace_seconds = 1000.0 / speed is 1000000 / speed.
\* A string is the sequence of its characters.
MaxSpeed == 6000
\* Laps of a panel; sizes and indexes handed to string_space.
MaxBars == 3
MaxSize == 100

\* Speeds in mm/s, two negative ones included.
Speeds == (-2)..MaxSpeed
\* Lap speeds: 0 ("0:00"), and those of the paces 6:30, 6:00, 5:13, 5:00.
LapSpeeds == {0, 2564, 2777, 3200, 3333}
LapSequences == UNION {[1..n -> LapSpeeds] : n \in 1..MaxBars}

DigitChars == <<"0", "1", "2", "3", "4", "5", "6", "7", "8", "9">>

\* format!("{}", n) of an unsigned integer.
RECURSIVE to_string(_)
to_string(n) ==
  IF n < 10
  THEN <<DigitChars[n + 1]>>
  ELSE Append(to_string(n \div 10), DigitChars[(n % 10) + 1])

\* Variant of format_02 with a defect: no padding.
format_unpadded(n) == to_string(n)

\* format!("{:02}", n): at least two digits, padded with "0".
format_02(n) == IF n < 10 THEN <<"0">> \o to_string(n) ELSE to_string(n)

\* speed_to_pace: "0:00" for speed <= 0; otherwise
\*   minutes = (pace_seconds / 60.0).floor(), seconds = (pace_seconds %
\*   60.0).round(), format!("{}:{:02}", minutes, seconds).
\* round() rounds half away from zero.
speed_to_pace(speed) ==
  IF speed <= 0
  THEN <<"0", ":", "0", "0">>
  ELSE LET minutes == 1000000 \div (60 * speed)
           seconds == (2 * (1000000 % (60 * speed)) + speed) \div (2 * speed)
       IN to_string(minutes) \o <<":">> \o format_02(seconds)

\* str::split_once(':'): the text before and after the first ':'.
split_once(str, delimiter) ==
  LET k == CHOOSE k \in 1..Len(str) :
             str[k] = delimiter /\ \A j \in 1..(k - 1) : str[j] # delimiter
  IN <<SubSeq(str, 1, k - 1), SubSeq(str, k + 1, Len(str))>>

\* str::parse::<f32>() of a string of decimal digits.
RECURSIVE parse(_)
parse(str) ==
  LET last == CHOOSE d \in 0..9 : DigitChars[d + 1] = str[Len(str)] IN
  IF Len(str) = 1
  THEN last
  ELSE 10 * parse(SubSeq(str, 1, Len(str) - 1)) + last

\* Variant of convert_pace_to_sec with a defect: the two parts are swapped.
convert_pace_to_sec_swapped(pace) ==
  LET parts == split_once(pace, ":") IN
  parse(parts[2]) * 60 + parse(parts[1])

\* convert_pace_to_sec: minutes * 60.0 + seconds.
convert_pace_to_sec(pace) ==
  LET parts == split_once(pace, ":") IN
  parse(parts[1]) * 60 + parse(parts[2])

\* count_digits_iterative: 1 for 0, else the number of divisions by 10
\* until the number is 0.
RECURSIVE count_digits_iterative(_)
count_digits_iterative(num) ==
  IF num < 10 THEN 1 ELSE 1 + count_digits_iterative(num \div 10)

\* max_digits - current_digits underflows usize when the index has more
\* digits than the size: with overflow checks the subtraction panics.
string_space_panics(size, index, overflow_checks) ==
  /\ overflow_checks
  /\ count_digits_iterative(index) > count_digits_iterative(size)

\* Variant of string_space with a defect: the padding is always 3 spaces.
string_space_fixed_padding(size, index, pace) ==
  to_string(index) \o [k \in 1..3 |-> " "] \o pace

\* string_space: index, then max_digits - current_digits + 3 spaces, then
\* pace.  Without overflow checks the subtraction wraps, and adding 3 wraps
\* back for a difference of at most 3 digits.
string_space(size, index, pace) ==
  LET max_digits == count_digits_iterative(size)
      current_digits == count_digits_iterative(index)
      padding == [k \in 1..(max_digits - current_digits + 3) |-> " "]
  IN to_string(index) \o padding \o pace

\* An f32 that is the quotient of two integers: finite (num / den, den # 0),
\* an infinity, or NaN.
f32_div(n, d) ==
  IF d # 0
  THEN [kind |-> "finite", num |-> n, den |-> d]
  ELSE IF n > 0 THEN [kind |-> "inf", num |-> 1, den |-> 0]
  ELSE IF n < 0 THEN [kind |-> "-inf", num |-> -1, den |-> 0]
  ELSE [kind |-> "NaN", num |-> 0, den |-> 0]

\* Variant of pace_percentage with a defect: the quotient is clamped to 1.
pace_percentage_clamped(numer, denum) ==
  IF denum # 0 /\ numer > denum THEN f32_div(1, 1) ELSE f32_div(numer, denum)

\* pace_percentage: numer / denum.
pace_percentage(numer, denum) == f32_div(numer, denum)

\* pace_seconds.iter().min_by(|a, b| a.total_cmp(b))
min_val(pace_seconds) ==
  CHOOSE v \in {pace_seconds[k] : k \in 1..Len(pace_seconds)} :
    \A k \in 1..Len(pace_seconds) : v <= pace_seconds[k]

\* Variant of min_denominator with a defect: the bucket is rounded up.
min_denominator_ceil(min) == ((min + 29) \div 30) * 30

\* min_denominator = (min_val / 30.0).floor() * 30.0
min_denominator(min) == (min \div 30) * 30

\* LapDataConfig.bar_max_width of the default configurations.
bar_max_width == 200

\* The values LapDataConfig::new is given for bar_max_width.
BarMaxWidths == {bar_max_width, 300}

\* The factor of the bar width: config.lap_data.bar_max_width in
\* progressive_route_with_config, the literal 200.0 in
\* image_route_with_config.
bar_factor(job, configured) == IF job = "video" THEN configured ELSE 200

\* bar_width = (percent * max_width as f32) as i32: the cast truncates,
\* sends NaN to 0 and saturates at the ends of i32.
bar_width(percent, max_width) ==
  IF percent.kind = "finite" THEN Trunc(percent.num * max_width, percent.den)
  ELSE IF percent.kind = "inf" THEN 2147483647
  ELSE IF percent.kind = "-inf" THEN -2147483647 - 1
  ELSE 0

PaceLabels == {<<"5", ":", "0", "0">>, <<"1", "2", ":", "0", "5">>}
PercentageArgs == {-50, 0, 25, 50, 75, 100}

\* drawer.text_size(text, ..): the size get_text_size measures, for a font
\* whose characters are glyph.width wide and glyph.height high.
Glyphs == {[width |-> 19, height |-> 22], [width |-> 9, height |-> 11]}
text_size(text, glyph) ==
  [width |-> glyph.width * Len(text), height |-> glyph.height]

\* start_x and start_y of the panel.
PanelStart == [x |-> 540, y |-> 100]

PaceCalls ==
  [f : {"speed_to_pace"}, speed : Speeds]
  \cup [f : {"laps"}, speeds : LapSequences, job : {"video", "image"},
        bar_max_width : BarMaxWidths, glyph : Glyphs]
  \cup [f : {"pace_percentage"}, numer : PercentageArgs,
        denum : PercentageArgs]
  \cup [f : {"string_space"}, size : 0..MaxSize, index : 0..MaxSize,
        pace : PaceLabels]

PaceInit ==
  /\ jobInitial /\ srvInitial /\ imgInitial
  /\ call \in PaceCalls
  /\ ret = [state |-> "called"]

\* speed_to_pace(speed)
speed_to_pace_call ==
  /\ call.f = "speed_to_pace" /\ ret.state = "called"
  /\ ret' = [state |-> "label", label |-> speed_to_pace(call.speed)]
  /\ UNCHANGED <<call, jobVars, srvVars, imgVars>>

\* convert_pace_to_sec of the label speed_to_pace returned.
convert_pace_to_sec_call ==
  /\ call.f = "speed_to_pace" /\ ret.state = "label"
  /\ ret' = [state |-> "seconds", label |-> ret.label,
             seconds |-> convert_pace_to_sec(ret.label)]
  /\ UNCHANGED <<call, jobVars, srvVars, imgVars>>

\* The Lap arm of fit_reader: speed = Some(speed_to_pace(*v as f32)) and
\* enhanced_avg_speed.push(speed), for every lap.
lap_labels ==
  /\ call.f = "laps" /\ ret.state = "called"
  /\ ret' = [state |-> "labels",
             enhanced_avg_speed |->
               [k \in 1..Len(call.speeds) |-> speed_to_pace(call.speeds[k])]]
  /\ UNCHANGED <<call, jobVars, srvVars, imgVars>>

\* The panel arithmetic of the job (call.job: the video job or the image
\* job): pace_seconds, min_val, min_denominator, and for lap i the row
\* position, the row text, percent, bar_width and the bar rectangle.
lap_bars ==
  /\ call.f = "laps" /\ ret.state = "labels"
  /\ LET size_of_speeds == Len(ret.enhanced_avg_speed)
         pace_seconds ==
           [k \in 1..size_of_speeds |->
              convert_pace_to_sec(ret.enhanced_avg_speed[k])]
         baseline == min_denominator(min_val(pace_seconds))
         percent ==
           [k \in 1..size_of_speeds |->
              pace_percentage(baseline, pace_seconds[k])]
         size ==
           [k \in 1..size_of_speeds |->
              text_size(ret.enhanced_avg_speed[k], call.glyph)]
         x == [k \in 1..size_of_speeds |->
                 PanelStart.x - Trunc(size[k].width, 2)]
         y == [k \in 1..size_of_speeds |->
                 PanelStart.y + (k - 1) * (size[k].height + 5)]
         width ==
           [k \in 1..size_of_speeds |->
              bar_width(percent[k],
                        bar_factor(call.job, call.bar_max_width))]
     IN
     ret' = [state |-> "bars",
             enhanced_avg_speed |-> ret.enhanced_avg_speed,
             pace_seconds |-> pace_seconds,
             min_denominator |-> baseline,
             pace_space |->
               [k \in 1..size_of_speeds |->
                  string_space(size_of_speeds, k, ret.enhanced_avg_speed[k])],
             percent |-> percent,
             size |-> size,
             x |-> x,
             y |-> y,
             bar_width |-> width,
             rect |->
               [k \in 1..size_of_speeds |->
                  [x |-> x[k] + size[k].width + 60,
                   y |-> y[k] - size[k].height,
                   width |-> width[k],
                   height |-> size[k].height]]]
  /\ UNCHANGED <<call, jobVars, srvVars, imgVars>>

\* pace_percentage(numer, denum)
pace_percentage_call ==
  /\ call.f = "pace_percentage" /\ ret.state = "called"
  /\ ret' = [state |-> "returned",
             value |-> pace_percentage(call.numer, call.denum)]
  /\ UNCHANGED <<call, jobVars, srvVars, imgVars>>

\* string_space(size, index, pace), built with or without overflow checks.
string_space_call ==
  /\ call.f = "string_space" /\ ret.state = "called"
  /\ \E overflow_checks \in BOOLEAN :
       ret' = IF string_space_panics(call.size, call.index, overflow_checks)
              THEN [state |-> "panic"]
              ELSE [state |-> "returned",
                    value |-> string_space(call.size, call.index, call.pace)]
  /\ UNCHANGED <<call, jobVars, srvVars, imgVars>>

PaceNext ==
  \/ speed_to_pace_call
  \/ convert_pace_to_sec_call
  \/ lap_labels
  \/ lap_bars
  \/ pace_percentage_call
  \/ string_space_call

PaceSpec == PaceInit /\ [][PaceNext]_vars

(* ------------------------ pace and panel: claims ---------------------- *)
\* C15: the seconds parsed from the label of a pace ("M:SS", with exactly
\* two characters after the colon) are within 1 second of that pace:
\* |seconds - 1000000 / speed| <= 1, and a speed of 0 or less gives "0:00"
\* and 0.
C15_PaceLabelRoundTrip ==
  (call.f = "speed_to_pace" /\ ret.state = "seconds") =>
    /\ \E k \in 1..Len(ret.label) :
         /\ ret.label[k] = ":" /\ k > 1 /\ Len(ret.label) = k + 2
         /\ \A j \in 1..Len(ret.label) : j # k => ret.label[j] # ":"
    /\ call.speed > 0 =>
         /\ (ret.seconds - 1) * call.speed <= 1000000
         /\ 1000000 <= (ret.seconds + 1) * call.speed
    /\ call.speed <= 0 => ret.seconds = 0

C15_Witness ==
  /\ call.f = "speed_to_pace" /\ ret.state = "seconds"
  /\ call.speed = 2781
  /\ ret.label = <<"5", ":", "6", "0">>
  /\ ret.seconds = 360

\* The panel arithmetic has been done for the laps.
Bars == call.f = "laps" /\ ret.state = "bars"

\* The pace of lap k is the least of the laps.
IsMinPace(k) ==
  \A j \in 1..Len(ret.pace_seconds) :
    ret.pace_seconds[k] <= ret.pace_seconds[j]

\* C16: the bar baseline is a multiple of 30, is at most the least pace of
\* the laps and is above that pace minus 30.
C16_BaselineIsBucketOfMin ==
  Bars =>
    /\ ret.min_denominator % 30 = 0
    /\ \A k \in 1..Len(ret.pace_seconds) :
         /\ ret.min_denominator <= ret.pace_seconds[k]
         /\ IsMinPace(k) => ret.min_denominator > ret.pace_seconds[k] - 30

C16_Witness ==
  /\ Bars
  /\ ret.pace_seconds = <<360, 313>>
  /\ ret.min_denominator = 300

\* The f32 q is the quotient n / d (d # 0).
IsQuotient(q, n, d) == q.kind = "finite" /\ q.num * d = n * q.den

\* The f32 q (of positive denominator) is within 0.001 of permille / 1000.
Near(q, permille) ==
  /\ q.kind = "finite"
  /\ q.num * 1000 - permille * q.den <= q.den
  /\ permille * q.den - q.num * 1000 <= q.den

\* The bar percentage of every lap of non-zero pace is the one baseline
\* over the pace of the lap, pace_percentage(n, d) is n / d for d # 0,
\* above 1 too, and laps of 300, 360 and 390 seconds have the baseline 300
\* and the percentages 1.0, 0.833 and 0.769.
PercentIsBaselineOverPace ==
  /\ Bars =>
       \A k \in 1..Len(ret.pace_seconds) :
         ret.pace_seconds[k] # 0 =>
           IsQuotient(ret.percent[k], ret.min_denominator,
                      ret.pace_seconds[k])
  /\ (Bars /\ ret.pace_seconds = <<300, 360, 390>>) =>
       /\ ret.min_denominator = 300
       /\ Near(ret.percent[1], 1000)
       /\ Near(ret.percent[2], 833)
       /\ Near(ret.percent[3], 769)
  /\ (call.f = "pace_percentage" /\ ret.state = "returned"
      /\ call.denum # 0) =>
       IsQuotient(ret.value, call.numer, call.denum)

C18_PercentFiniteInUnitInterval ==
  Bars =>
    \A k \in 1..Len(ret.percent) :
      /\ ret.percent[k].kind = "finite"
      /\ ret.percent[k].den > 0
      /\ 0 <= ret.percent[k].num /\ ret.percent[k].num <= ret.percent[k].den
      /\ ret.percent[k].num = ret.percent[k].den => IsMinPace(k)

\* The number of decimal digits of a positive number.
DigitCount(n) == CHOOSE d \in 1..9 : 10 ^ (d - 1) <= n /\ n < 10 ^ d

TextHeights == {0, 11, 22}

\* Drawer::text_bar on a canvas of width x height, text_height being the
\* measured height of dist: the opaque bar, then pace on the left and dist
\* on the right.  An empty string is -1.
text_bar(pace, dist, width, height, text_height) ==
  LET bar_height == text_height + 30 IN
  <<[op |-> "rectangle", x |-> 0, y |-> height - bar_height,
     width |-> width, height |-> bar_height, text |-> -1],
    [op |-> "text", x |-> 20, y |-> height - 20,
     width |-> -1, height |-> -1, text |-> pace],
    [op |-> "text", x |-> -1, y |-> height - 20,
     width |-> -1, height |-> -1, text |-> dist]>>

\* The frame of index K - 1 has pace and distance data and the bottom bar
\* is enabled.
OverlayEnabled(K) ==
  config.show_bottom_bar /\ K <= Len(paces) /\ K <= Len(distances)

\* What text_bar is called with for the frame of index K - 1, and the opaque
\* bar it draws first.
OverlayOf(K) ==
  /\ CallsOf(written[K].frame, {"text_bar"}) =
       <<DrawCall("text_bar", K - 1,
                  IF config.show_pace THEN paces[K] ELSE -1,
                  IF config.show_distance THEN distances[K] ELSE -1)>>
  /\ \A cfg \in RouteConfigs, text_height \in TextHeights :
       LET c == CallsOf(written[K].frame, {"text_bar"})[1]
           bar == text_bar(c.a, c.b, cfg.width, cfg.height, text_height)[1]
       IN
       /\ bar.op = "rectangle" /\ bar.x = 0 /\ bar.width = cfg.width
       /\ bar.height = text_height + 30
       /\ bar.y + bar.height = cfg.height

\* C22 as stated: on every frame with pace and distance data the bar is
\* drawn when the bottom bar is enabled, whatever show_pace and
\* show_distance are, a switched-off flag only emptying its string.
C22_BarDrawnWhateverTheFlags ==
  \A K \in 1..Len(written) : OverlayEnabled(K) => OverlayOf(K)

\* C22 amended: the bar is drawn on such a frame when at least one of
\* show_pace and show_distance is set, a switched-off flag only emptying
\* its string; when both are off, or the bottom bar is disabled, or the
\* frame has no data, nothing of the overlay is drawn.
C22_BarDrawnIfOneFlagSet ==
  \A K \in 1..Len(written) :
    IF OverlayEnabled(K) /\ (config.show_pace \/ config.show_distance)
    THEN OverlayOf(K)
    ELSE CallsOf(written[K].frame, {"text_bar"}) = <<>>

C22_Witness ==
  /\ config.show_bottom_bar /\ config.show_pace /\ ~config.show_distance
  /\ Len(written) = 2 /\ Len(paces) = 2 /\ Len(distances) = 2
  /\ CallsOf(written[2].frame, {"text_bar"}) =
       <<DrawCall("text_bar", 1, paces[2], -1)>>

\* C26: on every frame that carries the overlay, the pace text and the
\* distance text come from the record pixel_points[i] comes from.
C26_OverlayFromSameRecord ==
  \A K \in 1..Len(written) :
    \A k \in 1..Len(written[K].frame) :
      written[K].frame[k].op = "text_bar" =>
        /\ written[K].frame[k].a \in {-1, pixel_points[K]}
        /\ written[K].frame[k].b \in {-1, pixel_points[K]}

\* C27: for a non-empty track the job does not panic, whatever the number
\* of laps, and with the panel disabled it reads no lap value.
C27_CompletesForEveryLapCount ==
  gps_points # <<>> =>
    /\ failed # "min_pace"
    /\ ~config.show_lap_data => result # "Panic"

\* C29: the vectors fit_reader fills stay aligned, gps_points with paces
\* and the three lap vectors with each other, so every index of the panel
\* loop is an index of the three lap vectors.
C29_VectorsAligned ==
  /\ Len(gps_points) = Len(paces)
  /\ Len(avg_heart_rate) = Len(enhanced_avg_speed)
  /\ Len(avg_step_length) = Len(enhanced_avg_speed)
  /\ pc = "lap_row" =>
       /\ lap_i + 1 \in DOMAIN enhanced_avg_speed
       /\ lap_i + 1 \in DOMAIN avg_heart_rate
       /\ lap_i + 1 \in DOMAIN avg_step_length

C29_Witness ==
  /\ pc = "lap_row" /\ lap_i = 1
  /\ Len(enhanced_avg_speed) = 2 /\ Len(avg_heart_rate) = 2
  /\ Len(gps_points) = 1 /\ Len(paces) = 1 /\ Len(distances) = 3

(* ------------------- upload server: store and handle ------------------ *)
\* The handler of request r has returned the handle Json(VideoResponse)
\* (or ImageResponse).
HandleReturned(r) == req[r].pc = "done" /\ req[r].exit = "ok"

\* The job of request r returned Ok and fs::read gave its output.
RenderedAndRead(r) == req[r].job = "Ok" /\ req[r].data # NoData

\* C30: a request gets a store entry and a handle exactly when its job
\* succeeded and its output was read: a handle is returned only after that,
\* a request that ended on another path has no entry and no download, every
\* entry is the output read by the request of its kind and id, and when the
\* handler is about to return the handle the id is in the store.
C30_StoredAndHandedIffRendered ==
  /\ \A r \in Requests :
       /\ HandleReturned(r) => RenderedAndRead(r)
       /\ (req[r].pc = "done" /\ RenderedAndRead(r)) => HandleReturned(r)
       /\ req[r].pc = "respond" =>
            /\ RenderedAndRead(r)
            /\ store[req[r].kind][req[r].id] = req[r].data
       /\ (req[r].pc = "done" /\ ~HandleReturned(r)) =>
            \A kind \in Kinds :
              req[r].id \in Ids =>
                /\ store[kind][req[r].id] = NoData
                /\ WithData(kind, req[r].id) = <<>>
  /\ \A kind \in Kinds, id \in Ids :
       store[kind][id] # NoData =>
         \E r \in Requests :
           /\ req[r].kind = kind /\ req[r].id = id
           /\ RenderedAndRead(r) /\ req[r].data = store[kind][id]
           /\ req[r].pc = "respond" \/ HandleReturned(r)

C30_Witness ==
  /\ HandleReturned(1) /\ store[req[1].kind][req[1].id] = Render(1, 1)
  /\ req[2].pc = "done" /\ req[2].exit = "job_failed"
  /\ \A kind \in Kinds : store[kind][req[2].id] = NoData

(* ------------------- pace label and pace bar: claims ------------------ *)
\* The label is minutes, ":", and two digits of seconds.
LabelMinutes(label) == parse(split_once(label, ":")[1])
LabelSeconds(label) == parse(split_once(label, ":")[2])

\* C24: speed_to_pace returns a label for every speed: "0:00" for a speed
\* of 0 or less, and for a speed above 0 the digits of the minutes, ":" and
\* exactly two digits of seconds, the minutes being floor(P / 60) and the
\* seconds P mod 60 rounded to the nearest integer, for P = 1000 / speed.
C24_LabelOfEverySpeed ==
  (call.f = "speed_to_pace" /\ ret.state # "called") =>
    /\ ret.state \in {"label", "seconds"}
    /\ call.speed <= 0 => ret.label = <<"0", ":", "0", "0">>
    /\ call.speed > 0 =>
         LET M == LabelMinutes(ret.label)
             S == LabelSeconds(ret.label)
         IN
         /\ Len(split_once(ret.label, ":")[2]) = 2
         /\ Len(split_once(ret.label, ":")[1]) >= 1
         /\ \A k \in 1..Len(ret.label) :
              ret.label[k] = ":" \/ \E d \in 1..10 : DigitChars[d] = ret.label[k]
         /\ 60 * call.speed * M <= 1000000
         /\ 1000000 < 60 * call.speed * (M + 1)
         /\ 2 * (S * call.speed - (1000000 - 60 * M * call.speed))
              <= call.speed
         /\ 2 * ((1000000 - 60 * M * call.speed) - S * call.speed)
              <= call.speed

C24_Witness ==
  /\ call.f = "speed_to_pace" /\ ret.state = "label"
  /\ call.speed = 2770
  /\ ret.label = <<"6", ":", "0", "1">>

C24_WitnessNegative ==
  /\ call.f = "speed_to_pace" /\ ret.state = "label"
  /\ call.speed = -1
  /\ ret.label = <<"0", ":", "0", "0">>

\* C28: the seconds field of the label of a speed above 0 is in 0..59.
C28_SecondsBelowSixty ==
  (call.f = "speed_to_pace" /\ ret.state # "called" /\ call.speed > 0) =>
    LabelSeconds(ret.label) \in 0..59

None == <<>>
Some(v) == <<v>>

\* The flags of a LapDataConfig.
LapDataConfigs ==
  [show_heart_rate : BOOLEAN, show_stride_length : BOOLEAN,
   show_pace_bars : BOOLEAN]

\* RouteImageConfig::new(route_scale, colors, file_config, line_thickness)
RouteImageConfig_new == [lap_data |-> None, show_lap_data |-> FALSE]

\* RouteImageConfig::with_lap_data(.., lap_data)
RouteImageConfig_with_lap_data(lap_data) ==
  [lap_data |-> Some(lap_data), show_lap_data |-> TRUE]

\* RouteImageConfig::default(fit_file, background_image, output_file)
RouteImageConfig_default == [lap_data |-> None, show_lap_data |-> FALSE]

\* How the caller builds the configuration: by one of the constructors, or
\* field by field (the fields are pub), any combination of the two fields.
Constructors == {"new", "with_lap_data", "default"}
ImageCalls ==
  [f : {"image"}, constructor : {"new", "default"}]
  \cup [f : {"image"}, constructor : {"with_lap_data"},
        lap_data : LapDataConfigs]
  \cup [f : {"image"}, constructor : {"literal"},
        lap_data : {None} \cup {Some(l) : l \in LapDataConfigs},
        show_lap_data : BOOLEAN]

RouteImageConfig(c) ==
  IF c.constructor = "new" THEN RouteImageConfig_new
  ELSE IF c.constructor = "default" THEN RouteImageConfig_default
  ELSE IF c.constructor = "with_lap_data"
  THEN RouteImageConfig_with_lap_data(c.lap_data)
  ELSE [lap_data |-> c.lap_data, show_lap_data |-> c.show_lap_data]

ImageInit ==
  /\ call \in ImageCalls
  /\ ret = [state |-> "none"]
  /\ pc = "fit_reader"
  /\ config = RouteImageConfig(call)
  /\ gps_points = <<>> /\ paces = <<>> /\ distances = <<>> /\ nrec = 0
  /\ avg_heart_rate = <<>> /\ enhanced_avg_speed = <<>>
  /\ avg_step_length = <<>>
  /\ pixel_points = <<>> /\ projected = FALSE
  /\ path_frame = <<>> /\ current_frame = <<>>
  /\ lap_i = 0 /\ i = 0
  /\ video = <<>> /\ written = <<>>
  /\ result = "running" /\ failed = "none"
  /\ srvInitial /\ imgInitial

\* From the return of fit_reader to the raster: get_bounds(&points),
\* load_and_resize_image(..)?, the projection of every point,
\* imgproc::resize(..)?, let mut route_image = resized.clone().
image_load ==
  /\ pc = "get_bounds"
  /\ \E fail \in {"none", "load_image", "resize"} :
       /\ IF fail = "load_image"
          THEN /\ pixel_points' = pixel_points
               /\ projected' = projected
          ELSE /\ pixel_points' = [k \in 1..Len(gps_points) |-> gps_points[k]]
               /\ projected' = TRUE
       /\ IF fail = "none"
          THEN /\ route_image' = Background
               /\ Running("panel")
          ELSE /\ route_image' = route_image
               /\ ReturnErr(fail)
  /\ UNCHANGED <<config, gps_points, paces, distances, nrec, avg_heart_rate,
                 enhanced_avg_speed, avg_step_length, path_frame,
                 current_frame, lap_i, i, video, written, image_file>>
  /\ UNCHANGED <<srvVars, fnVars>>

\* Variant of PanelEnabled with a defect: the flag is not read.
PanelEnabledByPresence == config.lap_data # None

\* if config.show_lap_data { if let Some(lap_config) = &config.lap_data {
PanelEnabled == config.show_lap_data /\ config.lap_data # None

\* Inside the two tests: pace_seconds, then
\* min_val = *pace_seconds.iter().min_by(..).expect("Failed to find min pace")
image_min_pace ==
  /\ pc = "panel"
  /\ IF ~PanelEnabled
     THEN Running("polylines")
     ELSE IF enhanced_avg_speed = <<>>
     THEN Panic("min_pace")
     ELSE Running("image_header")
  /\ UNCHANGED <<config, gps_points, paces, distances, nrec, avg_heart_rate,
                 enhanced_avg_speed, avg_step_length, pixel_points, projected,
                 path_frame, current_frame, lap_i, i, video, written>>
  /\ UNCHANGED <<srvVars, fnVars, imgVars>>

\* drawer.header(&mut route_image, start_x, start_y, ..).expect(..)
image_header ==
  /\ pc = "image_header"
  /\ \E ok \in BOOLEAN :
       IF ok
       THEN /\ route_image' =
                 Append(route_image, DrawCall("header", -1, -1, -1))
            /\ Running("image_lap_row")
       ELSE /\ route_image' = route_image
            /\ Panic("header")
  /\ lap_i' = 0
  /\ UNCHANGED <<config, gps_points, paces, distances, nrec, avg_heart_rate,
                 enhanced_avg_speed, avg_step_length, pixel_points, projected,
                 path_frame, current_frame, i, video, written, image_file>>
  /\ UNCHANGED <<srvVars, fnVars>>

\* The draw calls of lap row n (0-based) of the image, in source order, the
\* flags being those of lap_config.
ImageLapRowCalls(n) ==
  LET lap_config == config.lap_data[1] IN
  <<DrawCall("pace", n, enhanced_avg_speed[n + 1], -1)>>
  \o (IF lap_config.show_heart_rate
      THEN <<DrawCall("heart_rate", n, avg_heart_rate[n + 1], -1)>>
      ELSE <<>>)
  \o (IF lap_config.show_stride_length
      THEN <<DrawCall("stride_length", n, avg_step_length[n + 1], -1)>>
      ELSE <<>>)
  \o (IF lap_config.show_pace_bars
      THEN <<DrawCall("bar", n, enhanced_avg_speed[n + 1], -1)>>
      ELSE <<>>)

\* One iteration of `for (i, pace) in enhanced_avg_speed.iter().enumerate()`
\* of the image job: drawer.text_size(..)? returns its error, every draw
\* call is .expect()ed.  fail is as in lap_row.
image_lap_row ==
  LET calls == ImageLapRowCalls(lap_i) IN
  /\ pc = "image_lap_row"
  /\ lap_i < Len(enhanced_avg_speed)
  /\ \E fail \in -1..Len(calls) :
       IF fail = 0
       THEN /\ route_image' = route_image \o calls
            /\ lap_i' = lap_i + 1
            /\ Running(IF lap_i + 1 < Len(enhanced_avg_speed)
                       THEN "image_lap_row" ELSE "polylines")
       ELSE IF fail = -1
       THEN /\ route_image' = route_image
            /\ lap_i' = lap_i
            /\ ReturnErr("text_size")
       ELSE /\ route_image' = route_image \o Take(calls, fail - 1)
            /\ lap_i' = lap_i
            /\ Panic(calls[fail].op)
  /\ UNCHANGED <<config, gps_points, paces, distances, nrec, avg_heart_rate,
                 enhanced_avg_speed, avg_step_length, pixel_points, projected,
                 path_frame, current_frame, i, video, written, image_file>>
  /\ UNCHANGED <<srvVars, fnVars>>

\* Variant of Polylines with a defect: one call per segment.
PolylinesBySegment(points) ==
  [j \in 1..(Len(points) - 1) |->
     DrawCall("polylines", j, <<points[j], points[j + 1]>>, -1)]

\* all_pts.push(pts); imgproc::polylines(&mut route_image, &all_pts, false,
\* ..): one call that gets every pixel point.
Polylines(points) == <<DrawCall("polylines", -1, points, -1)>>

\* imgproc::polylines(..)?
image_polylines ==
  /\ pc = "polylines"
  /\ \E ok \in BOOLEAN :
       IF ok
       THEN /\ route_image' = route_image \o Polylines(pixel_points)
            /\ Running("image_creator")
       ELSE /\ route_image' = route_image
            /\ ReturnErr("polylines")
  /\ UNCHANGED <<config, gps_points, paces, distances, nrec, avg_heart_rate,
                 enhanced_avg_speed, avg_step_length, pixel_points, projected,
                 path_frame, current_frame, lap_i, i, video, written,
                 image_file>>
  /\ UNCHANGED <<srvVars, fnVars>>

\* What image_creator(output_file, image) does to the output when it
\* succeeds: the image is written, once.
imwrite(file, image) == Append(file, image)

\* image_creator(&config.file_config.output_file, &route_image)?; Ok(())
image_creator ==
  /\ pc = "image_creator"
  /\ \E ok \in BOOLEAN :
       IF ok
       THEN /\ image_file' = imwrite(image_file, route_image)
            /\ ReturnOk
       ELSE /\ image_file' = image_file
            /\ ReturnErr("image_creator")
  /\ UNCHANGED <<config, gps_points, paces, distances, nrec, avg_heart_rate,
                 enhanced_avg_speed, avg_step_length, pixel_points, projected,
                 path_frame, current_frame, lap_i, i, video, written,
                 route_image>>
  /\ UNCHANGED <<srvVars, fnVars>>

ImageNext ==
  \/ fit_reader_fail
  \/ \E fields \in SUBSET RecordFields : fit_reader_Record(fields)
  \/ \E fields \in SUBSET LapFields : fit_reader_Lap(fields)
  \/ fit_reader_Ok
  \/ image_load
  \/ image_min_pace
  \/ image_header
  \/ image_lap_row
  \/ image_polylines
  \/ image_creator

ImageSpec == ImageInit /\ [][ImageNext]_vars

(* -------------------------- image job: claims ------------------------- *)
\* The pace texts of the rows of all laps, in order.
PaceRows ==
  [n \in 1..Len(enhanced_avg_speed) |->
     DrawCall("pace", n - 1, enhanced_avg_speed[n], -1)]

\* C21: the image job is one pass.  The sink gets nothing before the job
\* returns Ok and gets exactly one image then, the raster as it is at the
\* end; that image holds exactly one polyline call, over all the pixel
\* points, and the panel exactly once if it is enabled (one header, one row
\* per lap) and not at all otherwise.  No raster ever holds two polylines
\* or two headers.
C21_ImageJobIsOnePass ==
  /\ Len(CallsOf(route_image, {"polylines"})) <= 1
  /\ Len(CallsOf(route_image, {"header"})) <= 1
  /\ image_file # <<>> <=> (pc = "done" /\ result = "Ok")
  /\ image_file # <<>> =>
       /\ image_file = <<route_image>>
       /\ CallsOf(route_image, {"polylines"})
            = <<DrawCall("polylines", -1, pixel_points, -1)>>
       /\ Len(pixel_points) = Len(gps_points)
       /\ route_image[Len(route_image)].op = "polylines"
       /\ IF config.show_lap_data /\ config.lap_data # None
          THEN /\ Len(CallsOf(route_image, {"header"})) = 1
               /\ CallsOf(route_image, {"pace"}) = PaceRows
          ELSE CallsOf(route_image, PanelOps) = <<>>

C21_Witness ==
  /\ image_file # <<>>
  /\ Len(pixel_points) = 3
  /\ Len(enhanced_avg_speed) = 2
  /\ Len(CallsOf(route_image, {"header"})) = 1
  /\ Len(CallsOf(route_image, {"bar"})) = 2

\* The panel stage of the job is over.
PanelStageOver ==
  pc \in {"polylines", "image_creator"} \/ (pc = "done" /\ result = "Ok")

\* C25: once the panel stage is over the raster holds the panel if and only
\* if show_lap_data is set and lap_data is Some, and in no state does it
\* hold any of the panel otherwise; a configuration built by new,
\* with_lap_data or default has show_lap_data set exactly when lap_data is
\* Some.
C25_PanelIffFlagAndConfig ==
  /\ PanelStageOver =>
       (CallsOf(route_image, {"header"}) # <<>>
          <=> (config.show_lap_data /\ config.lap_data # None))
  /\ ~(config.show_lap_data /\ config.lap_data # None) =>
       CallsOf(route_image, PanelOps) = <<>>
  /\ call.constructor \in Constructors =>
       (config.show_lap_data <=> config.lap_data # None)

C25_Witness ==
  /\ call.constructor = "with_lap_data"
  /\ pc = "done" /\ result = "Ok"
  /\ CallsOf(route_image, {"header"}) # <<>>

C25_WitnessContradictory ==
  /\ call.constructor = "literal"
  /\ ~config.show_lap_data /\ config.lap_data # None
  /\ pc = "done" /\ result = "Ok" /\ enhanced_avg_speed # <<>>
  /\ CallsOf(route_image, PanelOps) = <<>>

====
